---- MODULE Spec2Model ----
(***************************************************************************)
(* A model of SuperIntelligentAgent.query: the Round-0 fan-out to the      *)
(* configured providers, the debate loop of buildConsensus, the synthesis  *)
(* of DecisionEngine and the lifecycle events, for one query on one agent. *)
(*                                                                         *)
(* Numbers.  Confidences, thresholds and agreement are real numbers in the *)
(* source.  They are modelled exactly, as integers in units of 1/60, so    *)
(* that the mean of one, two or three confidences that are multiples of    *)
(* 1/10 is again an integer.  The confidences and thresholds the model     *)
(* draws (0.5, 0.9; 0.5, 0.7; and 0, 0.5, 0.6, 0.9, 1 for a batch handed   *)
(* to the functions directly) are values for which the IEEE double results *)
(* of the source's sums, means and comparisons agree with the exact ones.  *)
(* A synthesised confidence is kept as a fraction [num, den].              *)
(***************************************************************************)
EXTENDS Integers, Sequences, FiniteSets

VARIABLES
    providers,          \* this.providers: the configured provider names
    collaborationMode,  \* this.collaborationMode
    config,             \* this.config
    query,              \* the AgentQuery of the call in flight
    pc,                 \* where query() stands
    calls,              \* the provider promises of the current fan-out
    fanouts,            \* number of fan-outs (getInitialResponses calls) so far
    initialResponses,   \* the Round-0 batch
    currentResponses,   \* buildConsensus: currentResponses
    debate,             \* buildConsensus: debate
    round,              \* buildConsensus: round
    maxRounds,          \* buildConsensus: maxRounds
    agreement,          \* buildConsensus: agreement
    threshold,          \* buildConsensus: threshold
    scored,             \* every batch handed to calculateAgreement, in order
    joined,             \* per completed fan-out: the settled calls and the batch
    result,             \* the ConsensusResult built; resolved with at "returned"
    error,              \* what query() rejected with
    events,             \* the events emitted, in order
    memoryLog,          \* the operations issued to VectorMemory, in order
    suspended,          \* the locals of a second query() call while the
                        \* first one's are in the variables above
    running,            \* which of the two calls the variables above belong to
    content,            \* generateResponse: the answer text of the backend
    extracted           \* per adapter, what extractReasoning(content) gave

vars == <<providers, collaborationMode, config, query, pc, calls,
          fanouts, initialResponses, currentResponses, debate, round,
          maxRounds, agreement, threshold, scored, joined, result, error, events,
          memoryLog, suspended, running, content, extracted>>

----------------------------------------------------------------------------
(* Values *)

\* An optional field that is absent (undefined).
Undefined == -1

\* The number 1 in units of 1/60.
One == 60

\* config.votingThreshold || 0.7
DefaultVotingThreshold == 42

\* config.maxDebateRounds || 3
DefaultMaxDebateRounds == 3

\* The largest maxDebateRounds a constructor or a query asks for.
MaxRoundsAsked == 1

\* initializeProviders registers the providers in this order.
ProviderOrder == <<"openai", "google", "anthropic">>

ProviderNames == {ProviderOrder[i] : i \in 1..Len(ProviderOrder)}

\* The CollaborationMode values.
KnownModes == {"democratic_consensus", "expertise_weighted", "hierarchical",
               "debate_synthesis"}

\* A mode outside the enumeration, as an untyped caller can pass.
UnknownMode == "swarm"

\* Confidences a provider reports: 0.5 and 0.9.
Confidences == {30, 54}

\* Thresholds asked for: absent, 0, 0.5.
ThresholdsAsked == {Undefined, 0, 30}

RoundsAsked == {Undefined} \cup (0..MaxRoundsAsked)

\* No second call of query().
NoCall == [pc |-> "none"]

NoResult == [kind |-> "none"]
NoError == "none"

None == [defined |-> FALSE]
Some(v) == [defined |-> TRUE, value |-> v]

\* What belongs to a second call of query().
otherCall == <<suspended, running>>

\* The locals of the adapters' generateResponse.
adapterLocals == <<content, extracted>>

\* No adapter has extracted a reasoning.
NoExtraction == [p \in {} |-> 0]

----------------------------------------------------------------------------
(* Helpers of the language *)

\* JavaScript's a || b on numbers: b when a is undefined or 0.
OrElse(a, b) == IF a = Undefined \/ a = 0 THEN b ELSE a

\* Array.from(this.providers.keys()): insertion order.
Keys(ps) == SelectSeq(ProviderOrder, LAMBDA p : p \in ps)

RECURSIVE SumConfidence(_)
SumConfidence(rs) ==
    IF rs = <<>> THEN 0 ELSE rs[1].confidence + SumConfidence(Tail(rs))

\* responses.reduce((sum, r) => sum + r.tokens.total, 0)
RECURSIVE SumTokens(_)
SumTokens(rs) ==
    IF rs = <<>> THEN 0 ELSE rs[1].tokens.total + SumTokens(Tail(rs))

\* responses.reduce((sum, r) => sum + r.cost, 0)
RECURSIVE SumCost(_)
SumCost(rs) ==
    IF rs = <<>> THEN 0 ELSE rs[1].cost + SumCost(Tail(rs))

\* The concatenation of a sequence of batches.
RECURSIVE Flatten(_)
Flatten(batches) ==
    IF batches = <<>> THEN <<>> ELSE batches[1] \o Flatten(Tail(batches))

----------------------------------------------------------------------------
(* Responses *)

\* The answer text of provider p in fan-out n (0 is Round-0), kept abstract.
Text(p, n) == [by |-> p, fanout |-> n]

\* The position of provider p in the registration order.
IndexOf(p) == CHOOSE i \in 1..Len(ProviderOrder) : ProviderOrder[i] = p

\* The token usage the API reports for the call of provider p in fan-out n.
\* The usage of a call is its own: a power of two per call, so that a sum of
\* usages tells which calls it was taken over.
Usage(p, n) ==
    LET unit == 2 ^ (Len(ProviderOrder) * n + IndexOf(p) - 1)
    IN  [input |-> unit, output |-> 3 * unit, total |-> 4 * unit]

\* calculateCost of each adapter, in units of 0.0000005 dollars: OpenAI
\* 0.00003 per token, Gemini 0.0005 per 1000 tokens, Claude 0.003 per 1000
\* input tokens and 0.015 per 1000 output tokens.
calculateCost(p, tokens) ==
    CASE p = "openai" -> 60 * tokens.total
      [] p = "google" -> tokens.total
      [] p = "anthropic" -> 6 * tokens.input + 30 * tokens.output

\* The object built from a fulfilled generateResponse call.
Response(p, c, n) ==
    [provider |-> p, confidence |-> c, response |-> Text(p, n),
     reasoning |-> [reasonOf |-> Text(p, n)],
     tokens |-> Usage(p, n), cost |-> calculateCost(p, Usage(p, n))]

Pending == [state |-> "pending", confidence |-> 0]
Fulfilled(c) == [state |-> "fulfilled", confidence |-> c]
Failed == [state |-> "failed", confidence |-> 0]

\* A generateResponse promise that never settles.
Hung == [state |-> "hung", confidence |-> 0]

\* Promise.all resolves once every promise has: a call still pending, or one
\* that never settles, holds it back.  Before it, the fault of going on with
\* the first call settled (Promise.race).
FirstSettled(cs) ==
    \/ DOMAIN cs = {}
    \/ \E p \in DOMAIN cs : cs[p].state \in {"fulfilled", "failed"}

AllSettled(cs) == \A p \in DOMAIN cs : cs[p].state \in {"fulfilled", "failed"}

\* (await Promise.all(promises)).filter(r => r !== null) over the calls of
\* fan-out n, in provider order.  keepFailed is the fault of not filtering:
\* a failed call then leaves an entry of its own.
RECURSIVE CollectFrom(_, _, _, _)
CollectFrom(cs, n, i, keepFailed) ==
    IF i > Len(ProviderOrder) THEN <<>>
    ELSE LET p == ProviderOrder[i]
             rest == CollectFrom(cs, n, i + 1, keepFailed)
         IN  IF p \notin DOMAIN cs THEN rest
             ELSE IF cs[p].state = "fulfilled"
                  THEN <<Response(p, cs[p].confidence, n)>> \o rest
             ELSE IF keepFailed
                  THEN <<Response(p, 0, n)>> \o rest
             ELSE rest

SettledResponsesKeepingFailed(cs, n) == CollectFrom(cs, n, 1, TRUE)

SettledResponses(cs, n) == CollectFrom(cs, n, 1, FALSE)

\* if (responses.length === 0) throw; before it, the fault of never throwing.
AllProvidersFailedNever(responses) == FALSE

AllProvidersFailed(responses) == Len(responses) = 0

----------------------------------------------------------------------------
(* The pure functions of SuperIntelligentAgent *)

\* calculateAgreement; before it, the fault of averaging a single response.
calculateAgreementAveragingOne(responses) ==
    IF Len(responses) = 0 THEN One
    ELSE SumConfidence(responses) \div Len(responses)

calculateAgreement(responses) ==
    IF Len(responses) <= 1 THEN One
    ELSE SumConfidence(responses) \div Len(responses)

\* responses.reduce((best, current) => score(current) > score(best) ? current
\* : best): the index of the first entry of maximal score.
RECURSIVE ReduceBest(_, _, _)
ReduceBest(best, scores, i) ==
    IF i > Len(scores) THEN best
    ELSE ReduceBest(IF scores[i] > scores[best] THEN i ELSE best, scores, i + 1)

\* selectBestResponse; before it, the fault of the comparison reversed.
selectBestResponseLowest(responses) ==
    responses[ReduceBest(1, [i \in 1..Len(responses) |-> 0 - responses[i].confidence], 2)]

selectBestResponse(responses) ==
    responses[ReduceBest(1, [i \in 1..Len(responses) |-> responses[i].confidence], 2)]

\* while (agreement < threshold && round < maxRounds); before it, the fault
\* of letting one round too many through.
LoopContinuesOffByOne(agr, thr, rnd, maxR) == agr < thr /\ rnd <= maxR

LoopContinues(agr, thr, rnd, maxR) == agr < thr /\ rnd < maxR

\* round++; before it, the fault of a loop that does not count its rounds.
NextRoundSame(rnd) == rnd

NextRound(rnd) == rnd + 1

\* if (agreement >= threshold) break
BreakNow(agr, thr) == agr >= thr

\* currentResponses.filter(r => r.confidence < threshold); before it, the
\* fault of also listing a response at the threshold.
DissentingAtOrBelow(responses, thr) ==
    SelectSeq(responses, LAMBDA r : r.confidence <= thr)

Dissenting(responses, thr) ==
    SelectSeq(responses, LAMBDA r : r.confidence < thr)

\* participants: Array.from(this.providers.keys()) of a consensus Result;
\* before it, the fault of listing only the providers that answered in the
\* final round.
ParticipantsAnswering(ps, responses) ==
    [i \in 1..Len(responses) |-> responses[i].provider]

ConsensusParticipants(ps, responses) == Keys(ps)

----------------------------------------------------------------------------
(* DecisionEngine *)

\* A confidence computed by a division, numerator and denominator in units
\* of 1/60 and 1.
Frac(n, d) == [num |-> n, den |-> d]

\* Math.abs(r.confidence - primary.confidence) > 0.2
DivergenceGap == 12

Abs(x) == IF x < 0 THEN 0 - x ELSE x

Min(a, b) == IF a < b THEN a ELSE b

RECURSIVE SumSquares(_)
SumSquares(rs) ==
    IF rs = <<>> THEN 0
    ELSE rs[1].confidence * rs[1].confidence + SumSquares(Tail(rs))

\* [...responses].sort((a, b) => b.confidence - a.confidence): descending,
\* ties in their original order.
RECURSIVE InsertDescending(_, _)
InsertDescending(r, sorted) ==
    IF sorted = <<>> THEN <<r>>
    ELSE IF sorted[1].confidence >= r.confidence
         THEN <<sorted[1]>> \o InsertDescending(r, Tail(sorted))
         ELSE <<r>> \o sorted

RECURSIVE SortDescending(_)
SortDescending(rs) ==
    IF rs = <<>> THEN <<>>
    ELSE InsertDescending(rs[Len(rs)], SortDescending(SubSeq(rs, 1, Len(rs) - 1)))

\* createSynthesis.  An answer text is abstract and counts as one sentence
\* of its own, so the unique points are the answer texts in batch order.
createSynthesis(responses, type) ==
    LET baseResponse == selectBestResponse(responses)
        points == [i \in 1..Len(responses) |-> responses[i].response]
    IN  [kind |-> type, perspectives |-> Len(responses),
         base |-> baseResponse.response,
         considerations |-> SubSeq(points, 1, Min(3, Len(points)))]

democraticConsensus(responses) ==
    LET n == Len(responses)
        sum == SumConfidence(responses)
        closeness == [i \in 1..n |-> 0 - Abs(responses[i].confidence * n - sum)]
        consensusResponse == responses[ReduceBest(1, closeness, 2)]
    IN  [decision |-> createSynthesis(responses, "democratic"),
         confidence |-> Frac(sum, n),
         reasoning |-> [participants |-> n,
                        selected |-> consensusResponse.provider,
                        selectedConfidence |-> consensusResponse.confidence],
         methodology |-> "democratic_consensus"]

\* expertiseWeighted; before it, the fault of weighting every response alike.
expertiseWeightedEvenly(responses) ==
    LET bestExpertResponse == selectBestResponse(responses)
    IN  [decision |-> createSynthesis(responses, "weighted"),
         confidence |-> Frac(SumConfidence(responses), Len(responses)),
         reasoning |-> [participants |-> Len(responses),
                        selected |-> bestExpertResponse.provider,
                        selectedConfidence |-> bestExpertResponse.confidence],
         methodology |-> "expertise_weighted"]

expertiseWeighted(responses) ==
    LET totalWeight == SumConfidence(responses)
        bestExpertResponse == selectBestResponse(responses)
    IN  [decision |-> createSynthesis(responses, "weighted"),
         confidence |-> Frac(SumSquares(responses), totalWeight),
         reasoning |-> [participants |-> Len(responses),
                        selected |-> bestExpertResponse.provider,
                        selectedConfidence |-> bestExpertResponse.confidence],
         methodology |-> "expertise_weighted"]

\* createHierarchicalSynthesis: sortedResponses.slice(1, 4) are the
\* advisors; before it, the fault of taking every response after the first.
createHierarchicalSynthesisUncut(sortedResponses) ==
    LET advisors == SubSeq(sortedResponses, 2, Len(sortedResponses))
    IN  [kind |-> "hierarchical",
         executive |-> sortedResponses[1].response,
         advisory |-> [i \in 1..Len(advisors) |->
                          [provider |-> advisors[i].provider,
                           reasoning |-> advisors[i].reasoning]]]

createHierarchicalSynthesis(sortedResponses) ==
    LET advisors == SubSeq(sortedResponses, 2, Min(4, Len(sortedResponses)))
    IN  [kind |-> "hierarchical",
         executive |-> sortedResponses[1].response,
         advisory |-> [i \in 1..Len(advisors) |->
                          [provider |-> advisors[i].provider,
                           reasoning |-> advisors[i].reasoning]]]

hierarchicalDecision(responses) ==
    LET sorted == SortDescending(responses)
        executive == sorted[1]
    IN  [decision |-> createHierarchicalSynthesis(sorted),
         confidence |-> Frac(executive.confidence, 1),
         reasoning |-> [participants |-> Len(responses),
                        selected |-> executive.provider,
                        selectedConfidence |-> executive.confidence],
         methodology |-> "hierarchical"]

\* sorted.find(r => |r.confidence - primary.confidence| > 0.2) || sorted[1]:
\* the index in sorted, 0 when there is none (undefined).
RECURSIVE FindDivergent(_, _)
FindDivergent(sorted, i) ==
    IF i > Len(sorted) THEN IF Len(sorted) >= 2 THEN 2 ELSE 0
    ELSE IF Abs(sorted[i].confidence - sorted[1].confidence) > DivergenceGap THEN i
    ELSE FindDivergent(sorted, i + 1)

createDebateSynthesis(primary, secondary) ==
    [kind |-> "debate",
     primary |-> [provider |-> primary.provider, response |-> primary.response],
     alternative |-> IF secondary.defined
                     THEN Some([provider |-> secondary.value.provider,
                                response |-> secondary.value.response])
                     ELSE None]

debateSynthesis(responses) ==
    LET sorted == SortDescending(responses)
        primary == sorted[1]
        a == FindDivergent(sorted, 1)
        alternative == IF a = 0 THEN None ELSE Some(sorted[a])
        other == IF a = 0 THEN primary.confidence
                 ELSE OrElse(sorted[a].confidence, primary.confidence)
    IN  [decision |-> createDebateSynthesis(primary, alternative),
         confidence |-> Frac(primary.confidence + other, 2),
         reasoning |-> [participants |-> Len(responses),
                        selected |-> primary.provider,
                        selectedConfidence |-> primary.confidence],
         methodology |-> "debate_synthesis"]

\* The default branch of synthesize's switch throws.
Unsupported(mode) == mode \notin KnownModes

\* synthesize, for a supported mode.
synthesize(responses, mode) ==
    CASE mode = "democratic_consensus" -> democraticConsensus(responses)
      [] mode = "expertise_weighted" -> expertiseWeighted(responses)
      [] mode = "hierarchical" -> hierarchicalDecision(responses)
      [] mode = "debate_synthesis" -> debateSynthesis(responses)

\* What a call returns or throws.
Returns(v) == [threw |-> FALSE, value |-> v]
Throws(e) == [threw |-> TRUE, error |-> e]

\* A call of synthesize.  The default branch throws for a mode outside the
\* enumeration; for an empty batch every strategy reads a field of
\* undefined (a TypeError).  Before it, the fault of an unknown mode falling
\* back on a strategy.
synthesizeCallFallingBack(responses, mode) ==
    IF Len(responses) = 0 THEN Throws("TypeError")
    ELSE IF Unsupported(mode) THEN Returns(democraticConsensus(responses))
    ELSE Returns(synthesize(responses, mode))

synthesizeCall(responses, mode) ==
    IF Unsupported(mode) THEN Throws("UnsupportedMode")
    ELSE IF Len(responses) = 0 THEN Throws("TypeError")
    ELSE Returns(synthesize(responses, mode))

----------------------------------------------------------------------------
(* Construction *)

\* The constructor's this.config, from the options passed.
ConstructConfig(votingThreshold, maxDebateRounds, enableMemory) ==
    [votingThreshold |-> OrElse(votingThreshold, DefaultVotingThreshold),
     maxDebateRounds |-> OrElse(maxDebateRounds, DefaultMaxDebateRounds),
     enableMemory |-> enableMemory]

\* The queries a caller passes.
Queries ==
    [requireConsensus : BOOLEAN, showDebate : BOOLEAN,
     votingThreshold : ThresholdsAsked, maxDebateRounds : RoundsAsked]

NoQuery == [requireConsensus |-> FALSE, showDebate |-> FALSE,
            votingThreshold |-> Undefined, maxDebateRounds |-> Undefined]

\* initializeProviders throws when no provider is configured, so an agent
\* exists only with at least one.
Init ==
    /\ providers \in (SUBSET ProviderNames) \ {{}}
    /\ collaborationMode \in {"democratic_consensus", UnknownMode}
    /\ config \in {ConstructConfig(t, m, e) :
                      t \in {Undefined, 30}, m \in {Undefined, 1}, e \in BOOLEAN}
    /\ query = NoQuery
    /\ pc = "idle"
    /\ calls = [p \in providers |-> Failed]
    /\ fanouts = 0
    /\ initialResponses = <<>>
    /\ currentResponses = <<>>
    /\ debate = <<>>
    /\ round = 0
    /\ maxRounds = Undefined
    /\ agreement = Undefined
    /\ threshold = Undefined
    /\ scored = <<>>
    /\ joined = <<>>
    /\ result = NoResult
    /\ error = NoError
    /\ events = <<>>
    /\ memoryLog = <<>>
    /\ suspended = NoCall
    /\ running = 1
    /\ content = <<>>
    /\ extracted = NoExtraction

----------------------------------------------------------------------------
(* Results and events *)

\* The object formatSimpleResult returns: it has no debate key.
formatSimpleResult(bestResponse, allResponses) ==
    [decision |-> bestResponse.response,
     confidence |-> Frac(bestResponse.confidence, 1),
     agreement |-> One,
     debate |-> None,
     participants |-> <<bestResponse.provider>>,
     reasoning |-> bestResponse.reasoning,
     dissenting |-> <<>>,
     metadata |-> [totalTokens |-> SumTokens(allResponses),
                   totalCost |-> SumCost(allResponses),
                   rounds |-> 0]]

\* debate: query.showDebate ? debate : undefined; before it, the fault of
\* an empty list in place of undefined.
debateFieldOrEmpty(q, deb) == IF q.showDebate THEN Some(deb) ELSE Some(<<>>)

debateField(q, deb) == IF q.showDebate THEN Some(deb) ELSE None

\* metadata of the object buildConsensus returns: the totals are taken over
\* currentResponses; before it, the fault of totals over every round's batch.
consensusMetadataOverAllRounds(cur, deb, rnd) ==
    LET all == IF deb = <<>> THEN cur
               ELSE initialResponses
                       \o Flatten([k \in 1..Len(deb) |-> deb[k].arguments])
    IN  [totalTokens |-> SumTokens(all), totalCost |-> SumCost(all),
         rounds |-> rnd]

consensusMetadata(cur, deb, rnd) ==
    [totalTokens |-> SumTokens(cur), totalCost |-> SumCost(cur), rounds |-> rnd]

\* The object buildConsensus returns.
consensusResult(decided, cur, deb, rnd, agr, thr, q, ps) ==
    [decision |-> decided.decision,
     confidence |-> decided.confidence,
     agreement |-> agr,
     debate |-> debateField(q, deb),
     participants |-> ConsensusParticipants(ps, cur),
     reasoning |-> decided.reasoning,
     dissenting |-> Dissenting(cur, thr),
     metadata |-> consensusMetadata(cur, deb, rnd)]

\* The DebateRound conductDebateRound returns; before it, the fault of a
\* round recorded with the agreement of the batch it was asked to refine.
conductDebateRoundStale(rnd, ps, refinedResponses, mode) ==
    [round |-> rnd,
     participants |-> Keys(ps),
     arguments |-> refinedResponses,
     synthesis |-> synthesize(refinedResponses, mode).reasoning,
     agreement |-> agreement]

conductDebateRound(rnd, ps, refinedResponses, mode) ==
    [round |-> rnd,
     participants |-> Keys(ps),
     arguments |-> refinedResponses,
     synthesis |-> synthesize(refinedResponses, mode).reasoning,
     agreement |-> calculateAgreement(refinedResponses)]

\* debate.push(debateRound); before it, the fault of keeping the latest
\* round only in place of the one before it.
pushOverLast(deb, debateRound) ==
    IF deb = <<>> THEN <<debateRound>>
    ELSE [deb EXCEPT ![Len(deb)] = debateRound]

push(deb, debateRound) == Append(deb, debateRound)

\* const finalDecision = this.decisionEngine.synthesize(currentResponses,
\* this.collaborationMode); before it, the fault of synthesising the Round-0
\* batch.
finalDecisionOfRound0(cur, mode) ==
    synthesize(IF initialResponses = <<>> THEN cur ELSE initialResponses, mode)

finalDecision(cur, mode) == synthesize(cur, mode)

StartEvent(q) == [name |-> "query:start", query |-> q]
CompleteEvent(q, r) == [name |-> "query:complete", query |-> q, result |-> r]
ErrorEvent(q, e) == [name |-> "query:error", query |-> q, error |-> e]

\* The catch block of query() emits query:error; before it, the fault of
\* rethrowing without the event.
CatchSilently(evs, q, e) == evs

Catch(evs, q, e) == Append(evs, ErrorEvent(q, e))

----------------------------------------------------------------------------
(* The steps of query() *)

buildConsensusLocals == <<currentResponses, debate, round, maxRounds,
                          agreement, threshold>>

\* getInitialResponses starts one generateResponse call per provider;
\* before it, the fault of a debate round asking only the providers that
\* answered in the round before.
DispatchToAnswering ==
    /\ calls' = [p \in IF fanouts = 0 THEN providers
                        ELSE {a \in providers : calls[a].state = "fulfilled"}
                    |-> Pending]
    /\ fanouts' = fanouts + 1

Dispatch ==
    /\ calls' = [p \in providers |-> Pending]
    /\ fanouts' = fanouts + 1

\* An error thrown inside the try block of query(): caught, reported, rethrown.
Reject(e) ==
    /\ pc' = "rejected"
    /\ error' = e
    /\ events' = Catch(events, query, e)
    /\ UNCHANGED <<result, memoryLog>>

\* query() up to its first await.
StartQuery(q) ==
    /\ pc = "idle"
    /\ query' = q
    /\ events' = Append(events, StartEvent(q))
    /\ IF config.enableMemory
       THEN /\ memoryLog' = Append(memoryLog, "search")
            /\ pc' = "memory_search"
            /\ UNCHANGED <<calls, fanouts>>
       ELSE /\ Dispatch
            /\ pc' = "awaiting_round0"
            /\ UNCHANGED memoryLog
    /\ UNCHANGED <<adapterLocals, otherCall,
                   providers, collaborationMode, config, initialResponses,
                   buildConsensusLocals, scored, joined, result, error>>

\* memory.search resolves; the memory of a fresh agent holds nothing, so the
\* context stays the query's own.  Then getInitialResponses is called.
MemorySearchReturns ==
    /\ pc = "memory_search"
    /\ Dispatch
    /\ pc' = "awaiting_round0"
    /\ UNCHANGED <<adapterLocals, otherCall,
                   providers, collaborationMode, config, query,
                   initialResponses, buildConsensusLocals, scored, joined,
                   result, error, events, memoryLog>>

Awaiting == pc \in {"awaiting_round0", "awaiting_debate"}

\* provider.generateResponse resolves.
ProviderResponds(p, c) ==
    /\ Awaiting
    /\ calls[p].state = "pending"
    /\ calls' = [calls EXCEPT ![p] = Fulfilled(c)]
    /\ UNCHANGED <<adapterLocals, otherCall,
                   providers, collaborationMode, config, query, pc, fanouts,
                   initialResponses, buildConsensusLocals, scored, joined,
                   result, error, events, memoryLog>>

\* provider.generateResponse rejects: logged, the call's promise yields null.
ProviderFails(p) ==
    /\ Awaiting
    /\ calls[p].state = "pending"
    /\ calls' = [calls EXCEPT ![p] = Failed]
    /\ UNCHANGED <<adapterLocals, otherCall,
                   providers, collaborationMode, config, query, pc, fanouts,
                   initialResponses, buildConsensusLocals, scored, joined,
                   result, error, events, memoryLog>>

\* The end of buildConsensus and the rest of query(): synthesize, build the
\* result, store it, learn (a log line), emit query:complete.
Conclude(cur, deb, rnd, agr, thr, maxR, scr) ==
    /\ currentResponses' = cur
    /\ debate' = deb
    /\ round' = rnd
    /\ agreement' = agr
    /\ threshold' = thr
    /\ maxRounds' = maxR
    /\ scored' = scr
    /\ UNCHANGED <<calls, fanouts>>
    /\ IF Unsupported(collaborationMode) THEN Reject("UnsupportedMode")
       ELSE IF Len(cur) = 0 THEN Reject("TypeError")
       ELSE LET r == consensusResult(finalDecision(cur, collaborationMode),
                                     cur, deb, rnd, agr, thr, query, providers)
            IN  /\ result' = r
                /\ error' = error
                /\ IF config.enableMemory
                   THEN /\ memoryLog' = Append(memoryLog, "store")
                        /\ pc' = "memory_store"
                        /\ events' = events
                   ELSE /\ memoryLog' = memoryLog
                        /\ pc' = "returned"
                        /\ events' = Append(events, CompleteEvent(query, r))

\* The while test of buildConsensus: another debate round, or the end.
LoopOrConclude(cur, deb, rnd, agr, thr, maxR, scr) ==
    IF LoopContinues(agr, thr, rnd, maxR)
    THEN /\ currentResponses' = cur
         /\ debate' = deb
         /\ round' = NextRound(rnd)
         /\ agreement' = agr
         /\ threshold' = thr
         /\ maxRounds' = maxR
         /\ scored' = scr
         /\ Dispatch
         /\ pc' = "awaiting_debate"
         /\ UNCHANGED <<result, error, events, memoryLog>>
    ELSE Conclude(cur, deb, rnd, agr, thr, maxR, scr)

\* Promise.all of the Round-0 fan-out resolves: getInitialResponses returns
\* or throws, and query() runs on to its next await or to its end.
JoinRound0 ==
    /\ pc = "awaiting_round0"
    /\ AllSettled(calls)
    /\ LET responses == SettledResponses(calls, 0)
       IN  /\ joined' = Append(joined, [calls |-> calls, batch |-> responses])
           /\ IF AllProvidersFailed(responses)
              THEN /\ Reject("AllProvidersFailed")
                   /\ UNCHANGED <<calls, fanouts, initialResponses,
                                  buildConsensusLocals, scored>>
              ELSE /\ initialResponses' = responses
                   /\ IF ~query.requireConsensus
                      THEN /\ UNCHANGED <<calls, fanouts, buildConsensusLocals,
                                          scored>>
                           /\ IF Len(responses) = 0 THEN Reject("TypeError")
                              ELSE /\ result' = formatSimpleResult(
                                          selectBestResponse(responses), responses)
                                   /\ pc' = "returned"
                                   /\ UNCHANGED <<error, events, memoryLog>>
                      ELSE LoopOrConclude(
                               responses, <<>>, 0,
                               calculateAgreement(responses),
                               OrElse(query.votingThreshold, config.votingThreshold),
                               OrElse(query.maxDebateRounds, config.maxDebateRounds),
                               Append(scored, responses))
    /\ UNCHANGED <<adapterLocals, otherCall,
                   providers, collaborationMode, config, query>>

\* Promise.all of a debate round's fan-out resolves: conductDebateRound
\* returns or throws, and buildConsensus runs on.
JoinDebate ==
    /\ pc = "awaiting_debate"
    /\ AllSettled(calls)
    /\ LET refinedResponses == SettledResponses(calls, round)
       IN  /\ joined' = Append(joined, [calls |-> calls, batch |-> refinedResponses])
           /\ IF AllProvidersFailed(refinedResponses)
              THEN /\ Reject("AllProvidersFailed")
                   /\ UNCHANGED <<calls, fanouts, buildConsensusLocals, scored>>
              ELSE IF Unsupported(collaborationMode)
              THEN /\ Reject("UnsupportedMode")
                   /\ UNCHANGED <<calls, fanouts, buildConsensusLocals, scored>>
              ELSE IF Len(refinedResponses) = 0
              THEN /\ Reject("TypeError")
                   /\ UNCHANGED <<calls, fanouts, buildConsensusLocals, scored>>
              ELSE LET debateRound == conductDebateRound(
                                          round, providers, refinedResponses,
                                          collaborationMode)
                       deb == push(debate, debateRound)
                       agr == calculateAgreement(debateRound.arguments)
                       scr == scored \o <<refinedResponses, refinedResponses>>
                   IN  IF BreakNow(agr, threshold)
                       THEN Conclude(refinedResponses, deb, round, agr,
                                     threshold, maxRounds, scr)
                       ELSE LoopOrConclude(refinedResponses, deb, round, agr,
                                           threshold, maxRounds, scr)
    /\ UNCHANGED <<adapterLocals, otherCall,
                   providers, collaborationMode, config, query, initialResponses>>

\* storeInMemory resolves; learnFromInteraction logs; query:complete is
\* emitted and the result returned.
MemoryStoreReturns ==
    /\ pc = "memory_store"
    /\ events' = Append(events, CompleteEvent(query, result))
    /\ pc' = "returned"
    /\ UNCHANGED <<adapterLocals, otherCall,
                   providers, collaborationMode, config, query, calls, fanouts,
                   initialResponses, buildConsensusLocals, scored, joined,
                   result, error, memoryLog>>

Next ==
    \/ \E q \in Queries : StartQuery(q)
    \/ MemorySearchReturns
    \/ \E p \in providers, c \in Confidences : ProviderResponds(p, c)
    \/ \E p \in providers : ProviderFails(p)
    \/ JoinRound0
    \/ JoinDebate
    \/ MemoryStoreReturns

Spec == Init /\ [][Next]_vars

----------------------------------------------------------------------------
(* The functions on their own: calculateAgreement and the exported          *)
(* DecisionEngine.synthesize, called with a batch of the caller's making.   *)
(* currentResponses is the batch handed in, collaborationMode the mode,     *)
(* agreement and result what the calls return, error what synthesize threw. *)

\* Confidences of a handed-in batch: 0, 0.5, 0.6, 0.9, 1.
BatchConfidences == {0, 30, 36, 54, One}

\* The batches handed in: none to three responses, one per provider.
Batches ==
    UNION {{[i \in 1..n |-> Response(ProviderOrder[i], c[i], 0)] :
               c \in [1..n -> BatchConfidences]} : n \in 0..Len(ProviderOrder)}

EngineInit ==
    /\ providers = ProviderNames
    /\ collaborationMode \in KnownModes \cup {UnknownMode}
    /\ config = ConstructConfig(Undefined, Undefined, FALSE)
    /\ query = NoQuery
    /\ pc = "idle"
    /\ calls = [p \in providers |-> Failed]
    /\ fanouts = 0
    /\ initialResponses = <<>>
    /\ currentResponses \in Batches
    /\ debate = <<>>
    /\ round = 0
    /\ maxRounds = Undefined
    /\ agreement = Undefined
    /\ threshold = Undefined
    /\ scored = <<>>
    /\ joined = <<>>
    /\ result = NoResult
    /\ error = NoError
    /\ events = <<>>
    /\ memoryLog = <<>>
    /\ suspended = NoCall
    /\ running = 1
    /\ content = <<>>
    /\ extracted = NoExtraction

\* calculateAgreement(batch)
Estimate ==
    /\ agreement = Undefined
    /\ agreement' = calculateAgreement(currentResponses)
    /\ scored' = Append(scored, currentResponses)
    /\ UNCHANGED <<adapterLocals, otherCall,
                   providers, collaborationMode, config, query, pc, calls,
                   fanouts, initialResponses, currentResponses, debate, round,
                   maxRounds, threshold, joined, result, error, events,
                   memoryLog>>

\* decisionEngine.synthesize(batch, mode)
Synthesise ==
    /\ pc = "idle"
    /\ LET outcome == synthesizeCall(currentResponses, collaborationMode)
       IN  IF outcome.threw
           THEN /\ pc' = "rejected"
                /\ error' = outcome.error
                /\ UNCHANGED result
           ELSE /\ pc' = "returned"
                /\ result' = outcome.value
                /\ UNCHANGED error
    /\ UNCHANGED <<adapterLocals, otherCall,
                   providers, collaborationMode, config, query, calls,
                   fanouts, initialResponses, buildConsensusLocals, scored,
                   joined, events, memoryLog>>

EngineNext ==
    \/ Estimate
    \/ Synthesise

EngineSpec == EngineInit /\ [][EngineNext]_vars

----------------------------------------------------------------------------
(* synthesize in hierarchical mode on batches longer than the advisory      *)
(* cut: a caller of DecisionEngine may hand in any number of responses.     *)

\* The longest batch handed in.
MaxAdvisedBatch == 5

\* The i-th response of a long batch: the providers in turn, a fresh answer
\* each time round.
LongBatchResponse(i, c) ==
    Response(ProviderOrder[((i - 1) % Len(ProviderOrder)) + 1], c,
             (i - 1) \div Len(ProviderOrder))

\* Batches of one to MaxAdvisedBatch responses of confidence 0.5, 0.6, 0.9.
LongBatches ==
    UNION {{[i \in 1..n |-> LongBatchResponse(i, c[i])] :
               c \in [1..n -> {30, 36, 54}]} : n \in 1..MaxAdvisedBatch}

HierarchyInit ==
    /\ providers = ProviderNames
    /\ collaborationMode = "hierarchical"
    /\ config = ConstructConfig(Undefined, Undefined, FALSE)
    /\ query = NoQuery
    /\ pc = "idle"
    /\ calls = [p \in providers |-> Failed]
    /\ fanouts = 0
    /\ initialResponses = <<>>
    /\ currentResponses \in LongBatches
    /\ debate = <<>>
    /\ round = 0
    /\ maxRounds = Undefined
    /\ agreement = Undefined
    /\ threshold = Undefined
    /\ scored = <<>>
    /\ joined = <<>>
    /\ result = NoResult
    /\ error = NoError
    /\ events = <<>>
    /\ memoryLog = <<>>
    /\ suspended = NoCall
    /\ running = 1
    /\ content = <<>>
    /\ extracted = NoExtraction

HierarchySpec == HierarchyInit /\ [][Synthesise]_vars

----------------------------------------------------------------------------
(* An agent of each of the four strategies, with one debate round unless    *)
(* the query asks otherwise.                                                *)

ModesInit ==
    /\ providers \in (SUBSET ProviderNames) \ {{}}
    /\ collaborationMode \in KnownModes
    /\ config \in {ConstructConfig(Undefined, 1, e) : e \in BOOLEAN}
    /\ query = NoQuery
    /\ pc = "idle"
    /\ calls = [p \in providers |-> Failed]
    /\ fanouts = 0
    /\ initialResponses = <<>>
    /\ currentResponses = <<>>
    /\ debate = <<>>
    /\ round = 0
    /\ maxRounds = Undefined
    /\ agreement = Undefined
    /\ threshold = Undefined
    /\ scored = <<>>
    /\ joined = <<>>
    /\ result = NoResult
    /\ error = NoError
    /\ events = <<>>
    /\ memoryLog = <<>>
    /\ suspended = NoCall
    /\ running = 1
    /\ content = <<>>
    /\ extracted = NoExtraction

ModesSpec == ModesInit /\ [][Next]_vars

----------------------------------------------------------------------------
(* Construction as a step: new SuperIntelligentAgent(config), then queries  *)
(* on the agent it made.                                                    *)

\* config.collaborationMode || 'democratic_consensus'; an absent mode is
\* written "", which || replaces as well.
ConstructMode(mode) == IF mode = "" THEN "democratic_consensus" ELSE mode

\* if (this.providers.size === 0) throw; before it, the fault of not
\* checking.
NoProvidersNever(registry) == FALSE

NoProviders(registry) == Cardinality(registry) = 0

\* Before the constructor runs: the registry is the empty Map of the field
\* initialiser; the other fields are unassigned and stand at the defaults.
ConstructInit ==
    /\ providers = {}
    /\ collaborationMode = ConstructMode("")
    /\ config = ConstructConfig(Undefined, Undefined, TRUE)
    /\ query = NoQuery
    /\ pc = "unconstructed"
    /\ calls = [p \in providers |-> Failed]
    /\ fanouts = 0
    /\ initialResponses = <<>>
    /\ currentResponses = <<>>
    /\ debate = <<>>
    /\ round = 0
    /\ maxRounds = Undefined
    /\ agreement = Undefined
    /\ threshold = Undefined
    /\ scored = <<>>
    /\ joined = <<>>
    /\ result = NoResult
    /\ error = NoError
    /\ events = <<>>
    /\ memoryLog = <<>>
    /\ suspended = NoCall
    /\ running = 1
    /\ content = <<>>
    /\ extracted = NoExtraction

\* The constructor, given the provider keys present in config.providers:
\* the fields are assigned, the providers registered, and initializeProviders
\* throws when none was.
Construct(keys, mode, votingThreshold, maxDebateRounds, enableMemory) ==
    /\ pc = "unconstructed"
    /\ collaborationMode' = ConstructMode(mode)
    /\ config' = ConstructConfig(votingThreshold, maxDebateRounds, enableMemory)
    /\ providers' = keys
    /\ calls' = [p \in keys |-> Failed]
    /\ IF NoProviders(keys)
       THEN /\ pc' = "construction_failed"
            /\ error' = "NoProviders"
       ELSE /\ pc' = "idle"
            /\ UNCHANGED error
    /\ UNCHANGED <<adapterLocals, otherCall, query, fanouts, initialResponses,
                   buildConsensusLocals, scored, joined, result, events,
                   memoryLog>>

ConstructNext ==
    \/ \E keys \in SUBSET ProviderNames, mode \in {"", "hierarchical"},
          enableMemory \in BOOLEAN :
              Construct(keys, mode, Undefined, 1, enableMemory)
    \/ Next

ConstructSpec == ConstructInit /\ [][ConstructNext]_vars

----------------------------------------------------------------------------
(* A provider that never answers.  The constructor stores timeoutMs in      *)
(* this.config and nothing reads it: no timer is started for a call or for  *)
(* a query, so the steps of a query are those of Next and a call that hangs *)
(* stays as it is.                                                          *)

\* provider.generateResponse never settles.
ProviderHangs(p) ==
    /\ Awaiting
    /\ calls[p].state = "pending"
    /\ calls' = [calls EXCEPT ![p] = Hung]
    /\ UNCHANGED <<adapterLocals, otherCall,
                   providers, collaborationMode, config, query, pc, fanouts,
                   initialResponses, buildConsensusLocals, scored, joined,
                   result, error, events, memoryLog>>

\* An agent of the default mode and threshold, with one debate round.
HangInit ==
    /\ Init
    /\ collaborationMode = "democratic_consensus"
    /\ config \in {ConstructConfig(Undefined, 1, e) : e \in BOOLEAN}

HangNext ==
    \/ Next
    \/ \E p \in providers : ProviderHangs(p)

HangSpec == HangInit /\ [][HangNext]_vars

----------------------------------------------------------------------------
(* Two calls of query() on one agent.  A call runs from one await to the    *)
(* next without interruption (the steps above); between two steps the event *)
(* loop may run a step of the other call.  The parameters and local         *)
(* variables of query(), getInitialResponses and buildConsensus belong to   *)
(* the call; the fields of the agent, the emitter and the memory are shared *)
(* by both.  The variables declared for one call hold the locals of the     *)
(* call that takes the next step, suspended those of the other.             *)

\* The locals of the call whose step is next.
Frame ==
    [query |-> query, pc |-> pc, calls |-> calls, fanouts |-> fanouts,
     initialResponses |-> initialResponses,
     currentResponses |-> currentResponses, debate |-> debate,
     round |-> round, maxRounds |-> maxRounds, agreement |-> agreement,
     threshold |-> threshold, scored |-> scored, joined |-> joined,
     result |-> result, error |-> error]

\* The locals of a call not yet made.
IdleFrame ==
    [query |-> NoQuery, pc |-> "idle", calls |-> [p \in providers |-> Failed],
     fanouts |-> 0, initialResponses |-> <<>>, currentResponses |-> <<>>,
     debate |-> <<>>, round |-> 0, maxRounds |-> Undefined,
     agreement |-> Undefined, threshold |-> Undefined, scored |-> <<>>,
     joined |-> <<>>, result |-> NoResult, error |-> NoError]

\* const debate: DebateRound[] = [] is a local of buildConsensus, so a call
\* resumes with its own; before it, the fault of one history kept on the
\* agent for all calls.
ResumedDebateOfAgent(frame) == debate

ResumedDebate(frame) == frame.debate

\* The event loop turns to the other call.
Switch ==
    /\ suspended' = Frame
    /\ running' = 3 - running
    /\ query' = suspended.query
    /\ pc' = suspended.pc
    /\ calls' = suspended.calls
    /\ fanouts' = suspended.fanouts
    /\ initialResponses' = suspended.initialResponses
    /\ currentResponses' = suspended.currentResponses
    /\ debate' = ResumedDebate(suspended)
    /\ round' = suspended.round
    /\ maxRounds' = suspended.maxRounds
    /\ agreement' = suspended.agreement
    /\ threshold' = suspended.threshold
    /\ scored' = suspended.scored
    /\ joined' = suspended.joined
    /\ result' = suspended.result
    /\ error' = suspended.error
    /\ UNCHANGED <<adapterLocals, providers, collaborationMode, config, events,
                   memoryLog>>

\* The queries of the two calls: with or without consensus, the threshold
\* absent or 0.5, the trace asked for.
TwoQueries ==
    [requireConsensus : BOOLEAN, showDebate : {TRUE},
     votingThreshold : {Undefined, 30}, maxDebateRounds : {Undefined}]

\* An agent of two providers, the default mode and threshold, one debate
\* round and a memory, and two calls not yet made.
TwoInit ==
    /\ providers = {"openai", "google"}
    /\ collaborationMode = "democratic_consensus"
    /\ config = ConstructConfig(Undefined, 1, TRUE)
    /\ query = NoQuery
    /\ pc = "idle"
    /\ calls = [p \in providers |-> Failed]
    /\ fanouts = 0
    /\ initialResponses = <<>>
    /\ currentResponses = <<>>
    /\ debate = <<>>
    /\ round = 0
    /\ maxRounds = Undefined
    /\ agreement = Undefined
    /\ threshold = Undefined
    /\ scored = <<>>
    /\ joined = <<>>
    /\ result = NoResult
    /\ error = NoError
    /\ events = <<>>
    /\ memoryLog = <<>>
    /\ suspended = IdleFrame
    /\ running = 1
    /\ content = <<>>
    /\ extracted = NoExtraction

TwoNext ==
    \/ \E q \in TwoQueries : StartQuery(q)
    \/ MemorySearchReturns
    \/ MemoryStoreReturns
    \/ \E p \in providers, c \in Confidences : ProviderResponds(p, c)
    \/ \E p \in providers : ProviderFails(p)
    \/ JoinRound0
    \/ JoinDebate
    \/ Switch

TwoSpec == TwoInit /\ [][TwoNext]_vars

----------------------------------------------------------------------------
(* Notions the properties are stated in *)

Returned == pc = "returned"
Rejected == pc = "rejected"

\* buildConsensus has been entered.
InConsensus == query.requireConsensus /\ threshold # Undefined

\* The threshold and the round budget in effect for the query.
ThresholdInEffect == OrElse(query.votingThreshold, config.votingThreshold)
MaxRoundsInEffect == OrElse(query.maxDebateRounds, config.maxDebateRounds)

\* The agreement of the batch of round k; round 0 is the initial batch.
AgreementAfter(k) ==
    IF k = 0 THEN calculateAgreement(initialResponses)
    ELSE calculateAgreement(debate[k].arguments)

\* The number of debate rounds started: every fan-out after the first.
DebateRoundsStarted == IF fanouts = 0 THEN 0 ELSE fanouts - 1

ResultBuilt == pc \in {"memory_store", "returned"}

IsMaximal(r, rs) == \A j \in 1..Len(rs) : r.confidence >= rs[j].confidence

AllFailedIn(cs) == \A p \in DOMAIN cs : cs[p].state = "failed"
SomeFailedIn(cs) == \E p \in DOMAIN cs : cs[p].state = "failed"
SomeFulfilledIn(cs) == \E p \in DOMAIN cs : cs[p].state = "fulfilled"

EntriesOf(p, batch) == {k \in 1..Len(batch) : batch[k].provider = p}

\* Two fractions that are the same number.
SameNumber(f, g) == f.den # 0 /\ g.den # 0 /\ f.num * g.den = g.num * f.den

\* synthesize returned, in the given mode.
Synthesised(mode) == pc = "returned" /\ collaborationMode = mode

\* The entry of a batch that a synthesis names by its provider.
EntryOf(p, batch) == batch[CHOOSE k \in 1..Len(batch) : batch[k].provider = p]

\* The least element of a non-empty set of numbers.
Least(S) == CHOOSE x \in S : \A y \in S : x <= y

SomeHungIn(cs) == \E p \in DOMAIN cs : cs[p].state = "hung"
SomePendingIn(cs) == \E p \in DOMAIN cs : cs[p].state = "pending"

----------------------------------------------------------------------------
(* Properties *)

\* C1: on the consensus path the round counter never exceeds the round
\* budget, a debate round is started only after batches whose agreement is
\* below the threshold, and a built Result reports the least k whose
\* agreement reaches the threshold, or the budget when there is none.
C1_RoundsLeastAgreeing ==
    InConsensus =>
        /\ round <= maxRounds
        /\ maxRounds = MaxRoundsInEffect
        /\ threshold = ThresholdInEffect
        /\ DebateRoundsStarted = round
        /\ \A k \in 0..(round - 1) : AgreementAfter(k) < threshold
        /\ ResultBuilt =>
              /\ result.metadata.rounds = round
              /\ Len(debate) = round
              /\ AgreementAfter(round) >= threshold \/ round = maxRounds

\* C1 witness: a debate stopped by agreement with budget left.
C1_Witness ==
    /\ Returned
    /\ InConsensus
    /\ round >= 1
    /\ round < maxRounds
    /\ AgreementAfter(round) >= threshold

\* C2: without requireConsensus there is one fan-out and no debate round,
\* and the Result is a Round-0 response of maximal confidence, rounds 0.
C2_SimpleTakesBest ==
    ~query.requireConsensus =>
        /\ fanouts <= 1
        /\ round = 0
        /\ debate = <<>>
        /\ Returned =>
              /\ fanouts = 1
              /\ result.metadata.rounds = 0
              /\ \E i \in 1..Len(initialResponses) :
                    /\ IsMaximal(initialResponses[i], initialResponses)
                    /\ result.decision = initialResponses[i].response
                    /\ result.confidence = Frac(initialResponses[i].confidence, 1)

\* C2 witness: a best response picked among differing confidences, with the
\* Round-0 agreement below the threshold in effect.
C2_Witness ==
    /\ Returned
    /\ ~query.requireConsensus
    /\ query.maxDebateRounds = 1
    /\ Len(initialResponses) >= 2
    /\ \E i, j \in 1..Len(initialResponses) :
          initialResponses[i].confidence < initialResponses[j].confidence
    /\ calculateAgreement(initialResponses) < ThresholdInEffect

\* C3: a consensus query with votingThreshold 0 starts no debate round.
C3_ZeroThresholdNoDebate ==
    (query.requireConsensus /\ query.votingThreshold = 0) =>
        (DebateRoundsStarted = 0 /\ round = 0)

\* C4: a consensus query with maxDebateRounds 0 starts no debate round.
C4_ZeroRoundsNoDebate ==
    (query.requireConsensus /\ query.maxDebateRounds = 0) =>
        (DebateRoundsStarted = 0 /\ round = 0)

\* C5: every batch scored, recorded in a round or synthesised is non-empty,
\* and a fan-out in which every call failed rejects the query with no Result.
C5_NoEmptyBatch ==
    /\ \A i \in 1..Len(scored) : Len(scored[i]) >= 1
    /\ \A k \in 1..Len(debate) : Len(debate[k].arguments) >= 1
    /\ ResultBuilt => Len(initialResponses) >= 1
    /\ (ResultBuilt /\ query.requireConsensus) => Len(currentResponses) >= 1
    /\ \A i \in 1..Len(joined) :
          AllFailedIn(joined[i].calls) =>
              /\ i = Len(joined)
              /\ Rejected
              /\ error = "AllProvidersFailed"
              /\ result = NoResult

\* C5 witness: every provider failed in a debate round.
C5_Witness ==
    /\ Rejected
    /\ Len(joined) >= 2
    /\ AllFailedIn(joined[Len(joined)].calls)
    /\ Cardinality(providers) >= 2

\* C6: the batch of a fan-out holds one response for each provider whose
\* call succeeded and none for a failed one, and after a partial failure the
\* query goes on with that batch.
C6_PartialFailureDropped ==
    \A i \in 1..Len(joined) :
        LET cs == joined[i].calls
            batch == joined[i].batch
        IN  /\ \A p \in providers :
                  /\ cs[p].state = "fulfilled" =>
                        /\ Cardinality(EntriesOf(p, batch)) = 1
                        /\ \A k \in EntriesOf(p, batch) :
                              batch[k].confidence = cs[p].confidence
                  /\ cs[p].state = "failed" => EntriesOf(p, batch) = {}
            /\ (SomeFailedIn(cs) /\ SomeFulfilledIn(cs)) =>
                  /\ ~(i = Len(joined) /\ Rejected /\ error = "AllProvidersFailed")
                  /\ i = 1 => initialResponses = batch
                  /\ (i > 1 /\ ~Unsupported(collaborationMode)) =>
                        debate[i - 1].arguments = batch

\* C6 witness: a Result after a debate round in which one call failed.
C6_Witness ==
    /\ Returned
    /\ Len(joined) >= 2
    /\ SomeFailedIn(joined[2].calls)
    /\ SomeFulfilledIn(joined[2].calls)
    /\ Len(currentResponses) >= 2

C8_OneTerminalEvent ==
    /\ Returned => events = <<StartEvent(query), CompleteEvent(query, result)>>
    /\ Rejected => events = <<StartEvent(query), ErrorEvent(query, error)>>

\* C9 as stated: the participants of every Result are the configured
\* providers.
C9_ParticipantsAreConfigured ==
    Returned => result.participants = Keys(providers)

\* C9 amended: the participants of a consensus Result are the configured
\* providers; the participants of a Result without requireConsensus are the
\* one provider of the response selected.
C9_ParticipantsByPath ==
    Returned =>
        IF query.requireConsensus
        THEN result.participants = Keys(providers)
        ELSE \E i \in 1..Len(initialResponses) :
                /\ result.decision = initialResponses[i].response
                /\ result.participants = <<initialResponses[i].provider>>

\* C9 witness: a consensus Result whose final round lost a provider.
C9_Witness ==
    /\ Returned
    /\ query.requireConsensus
    /\ round >= 1
    /\ Len(currentResponses) < Cardinality(providers)

\* C10 as stated: the dissenting list is the final-round responses strictly
\* below the threshold in effect.
C10_DissentingBelowThreshold ==
    Returned =>
        LET final == IF query.requireConsensus THEN currentResponses
                     ELSE initialResponses
        IN  result.dissenting =
                SelectSeq(final, LAMBDA r : r.confidence < ThresholdInEffect)

\* C10 amended: on the consensus path the dissenting list is the final-round
\* responses strictly below the threshold in effect, in batch order; without
\* requireConsensus it is empty.
C10_DissentingByPath ==
    Returned =>
        IF query.requireConsensus
        THEN result.dissenting =
                SelectSeq(currentResponses,
                          LAMBDA r : r.confidence < ThresholdInEffect)
        ELSE result.dissenting = <<>>

\* C10 witness: a consensus Result with a response at the threshold, left
\* out of the dissenting list.
C10_Witness ==
    /\ Returned
    /\ query.requireConsensus
    /\ \E i \in 1..Len(currentResponses) :
          /\ currentResponses[i].confidence = ThresholdInEffect
          /\ \A k \in 1..Len(result.dissenting) :
                result.dissenting[k] # currentResponses[i]

\* C11: the agreement of a batch of at most one response is exactly 1, and
\* of a larger batch the arithmetic mean of its confidences, which lies in
\* [0, 1] for confidences in [0, 1].
C11_AgreementIsMean ==
    agreement # Undefined =>
        LET n == Len(currentResponses)
        IN  /\ n <= 1 => agreement = One
            /\ n >= 2 => agreement * n = SumConfidence(currentResponses)
            /\ 0 <= agreement
            /\ agreement <= One

\* C11 witness: a mean of three confidences that is none of them.
C11_Witness ==
    /\ agreement # Undefined
    /\ scored = <<currentResponses>>
    /\ Len(currentResponses) = 3
    /\ \A i \in 1..3 : currentResponses[i].confidence # agreement
    /\ agreement * 3 = SumConfidence(currentResponses)

\* C12 as stated: the agreement of every Result is the estimator applied to
\* the batch its decision was taken from, and the agreement recorded with a
\* round is the estimator applied to that round's batch.
C12_AgreementOfFinalBatch ==
    /\ ResultBuilt =>
           result.agreement =
               calculateAgreement(IF query.requireConsensus THEN currentResponses
                                  ELSE initialResponses)
    /\ \A k \in 1..Len(debate) :
           debate[k].agreement = calculateAgreement(debate[k].arguments)

\* C12 amended: on the consensus path the agreement is computed over the
\* Round-0 batch and again over the batch of every round, each recorded
\* round carries the agreement of its own batch, and the Result carries the
\* agreement of the last batch; without requireConsensus nothing is
\* estimated and the Result's agreement is 1.
C12_AgreementByPath ==
    /\ InConsensus =>
           /\ Len(scored) = 1 + 2 * Len(debate)
           /\ scored[1] = initialResponses
           /\ agreement = calculateAgreement(currentResponses)
           /\ \A k \in 1..Len(debate) :
                  /\ debate[k].arguments = joined[k + 1].batch
                  /\ scored[2 * k] = debate[k].arguments
                  /\ scored[2 * k + 1] = debate[k].arguments
                  /\ debate[k].agreement = calculateAgreement(debate[k].arguments)
           /\ ResultBuilt =>
                  /\ currentResponses = joined[Len(joined)].batch
                  /\ result.agreement = calculateAgreement(currentResponses)
    /\ (~query.requireConsensus /\ Returned) =>
           /\ scored = <<>>
           /\ result.agreement = One

\* C12 witness: a consensus Result whose agreement is that of a debate
\* round's batch and not that of the Round-0 batch.
C12_Witness ==
    /\ Returned
    /\ query.requireConsensus
    /\ round >= 1
    /\ Len(currentResponses) >= 2
    /\ result.agreement = calculateAgreement(debate[round].arguments)
    /\ result.agreement # calculateAgreement(initialResponses)
    /\ result.agreement # One

\* C13: a provider call that never returns is turned into a failure when
\* the timeout elapses, so a round in which one call hangs and another has
\* answered is not stuck: once no call is still on its way, the query has a
\* step to take.
C13_HungCallTimesOut ==
    (Awaiting /\ SomeHungIn(calls) /\ SomeFulfilledIn(calls)
              /\ ~SomePendingIn(calls))
        => ENABLED HangNext

\* C14: synthesize called with a mode outside the four strategies throws
\* the unsupported-mode error for every batch, the empty one included, and
\* returns no result of any strategy.
C14_UnknownModeThrows ==
    (collaborationMode \notin KnownModes /\ pc # "idle") =>
        /\ pc = "rejected"
        /\ error = "UnsupportedMode"
        /\ result = NoResult

\* C14 witness: the error for a batch every strategy could have decided.
C14_Witness ==
    /\ collaborationMode = UnknownMode
    /\ pc = "rejected"
    /\ error = "UnsupportedMode"
    /\ Len(currentResponses) = 3
    /\ \A i \in 1..3 : currentResponses[i].confidence > 0

\* C15: constructing an agent with no provider configured fails, so there
\* is no agent without a provider, and whenever a query runs the registry
\* is non-empty and unchanged.
C15_NoAgentWithoutProviders ==
    /\ pc = "construction_failed" =>
           /\ providers = {}
           /\ error = "NoProviders"
    /\ pc \in {"unconstructed", "construction_failed"} =>
           /\ events = <<>>
           /\ fanouts = 0
           /\ result = NoResult
    /\ pc \notin {"unconstructed", "construction_failed"} => providers # {}
    /\ events # <<>> =>
           /\ providers # {}
           /\ DOMAIN calls = providers

\* C15 witness: a construction that failed for want of a provider.
C15_Witness ==
    /\ pc = "construction_failed"
    /\ providers = {}
    /\ error = "NoProviders"

\* C16 as stated: a Result carries the round trace exactly when the query's
\* showDebate is true.
C16_TraceIffShowDebate ==
    ResultBuilt => (result.debate.defined <=> query.showDebate)

\* C16 amended: a consensus Result carries the round trace, one entry per
\* debate round and possibly none, exactly when showDebate is true, and has
\* no such field otherwise; a Result without requireConsensus never has the
\* field, whatever showDebate is.
C16_TraceByPath ==
    ResultBuilt =>
        IF query.requireConsensus
        THEN IF query.showDebate
             THEN /\ result.debate = Some(debate)
                  /\ Len(result.debate.value) = result.metadata.rounds
             ELSE result.debate = None
        ELSE result.debate = None

\* C16 witness: a consensus Result with showDebate whose trace is present
\* and empty.
C16_Witness ==
    /\ Returned
    /\ query.requireConsensus
    /\ query.showDebate
    /\ result.metadata.rounds = 0
    /\ result.debate = Some(<<>>)

\* C17: totalTokens and totalCost of a Result are the sums over the batch
\* the decision was taken from, the last batch joined, and over no earlier
\* round's batch.
C17_TotalsOfFinalBatch ==
    ResultBuilt =>
        LET final == joined[Len(joined)].batch
        IN  /\ final = IF query.requireConsensus THEN currentResponses
                       ELSE initialResponses
            /\ result.metadata.totalTokens = SumTokens(final)
            /\ result.metadata.totalCost = SumCost(final)
            /\ \A i \in 1..Len(final) :
                   /\ final[i].tokens = Usage(final[i].provider, Len(joined) - 1)
                   /\ final[i].cost = calculateCost(final[i].provider, final[i].tokens)

\* C17 witness: a Result after a debate round, its totals those of the
\* round's two or more responses and not those of Round-0.
C17_Witness ==
    /\ Returned
    /\ query.requireConsensus
    /\ round >= 1
    /\ Len(currentResponses) >= 2
    /\ result.metadata.totalTokens = SumTokens(debate[round].arguments)
    /\ result.metadata.totalTokens # SumTokens(initialResponses)
    /\ result.metadata.totalCost # SumCost(initialResponses)

\* C18: the decision, confidence and reasoning of a consensus Result are
\* those the configured strategy gives for the batch of the last round
\* executed, whatever the batches of the rounds before it were.
C18_DecisionFromLastBatch ==
    (ResultBuilt /\ query.requireConsensus) =>
        LET last == joined[Len(joined)].batch
            decided == synthesize(last, collaborationMode)
        IN  /\ Len(joined) = round + 1
            /\ round >= 1 => last = debate[round].arguments
            /\ result.decision = decided.decision
            /\ result.confidence = decided.confidence
            /\ result.reasoning = decided.reasoning

\* C18 witness: a Result after a debate round for which the strategy would
\* have decided otherwise on the Round-0 batch.
C18_Witness ==
    /\ Returned
    /\ query.requireConsensus
    /\ round >= 1
    /\ Len(initialResponses) >= 2
    /\ Len(currentResponses) >= 2
    /\ collaborationMode = "debate_synthesis"
    /\ LET before == synthesize(initialResponses, collaborationMode)
       IN  /\ result.decision # before.decision
           /\ result.confidence # before.confidence
           /\ result.reasoning # before.reasoning

\* C19: in debate_synthesis the primary is a response of maximal
\* confidence; the alternative is the first response after the primary, in
\* descending order of confidence, that differs from it by more than 0.2,
\* or else the second-highest; the confidence is the mean of the two, and
\* that of the primary when the batch has one response.
C19_DebateConfidenceIsMean ==
    Synthesised("debate_synthesis") =>
        LET sorted == SortDescending(currentResponses)
            primary == EntryOf(result.decision.primary.provider, currentResponses)
            far == {i \in 2..Len(sorted) :
                       Abs(sorted[i].confidence - sorted[1].confidence)
                           > DivergenceGap}
            expected == IF far # {} THEN sorted[Least(far)] ELSE sorted[2]
        IN  /\ IsMaximal(primary, currentResponses)
            /\ result.decision.primary.response = primary.response
            /\ IF Len(currentResponses) = 1
               THEN /\ ~result.decision.alternative.defined
                    /\ SameNumber(result.confidence, Frac(primary.confidence, 1))
               ELSE /\ result.decision.alternative.defined
                    /\ result.decision.alternative.value.provider
                           = expected.provider
                    /\ result.decision.alternative.value.response
                           = expected.response
                    /\ SameNumber(result.confidence,
                                  Frac(primary.confidence + expected.confidence, 2))

\* C20: in democratic_consensus the confidence is the mean of the
\* confidences of the batch, and the decision text is built from the answer
\* of a response whose confidence is closest to that mean.
C20_DemocraticFromClosest ==
    Synthesised("democratic_consensus") =>
        LET n == Len(currentResponses)
            sum == SumConfidence(currentResponses)
            distance == [i \in 1..n |-> Abs(currentResponses[i].confidence * n - sum)]
            closest == {i \in 1..n : \A j \in 1..n : distance[i] <= distance[j]}
        IN  /\ SameNumber(result.confidence, Frac(sum, n))
            /\ \E i \in closest :
                   result.decision.base = currentResponses[i].response

\* C21: in hierarchical mode on a non-empty batch the executive is a
\* response of maximal confidence, the decision is its answer, the
\* confidence returned is its confidence, and the advisory input is the next
\* responses in descending order of confidence, three at most and none for
\* a batch of one.
C21_HierarchicalExecutive ==
    Synthesised("hierarchical") =>
        LET batch == currentResponses
            n == Len(batch)
            advisory == result.decision.advisory
            IsExecutive(i) == batch[i].response = result.decision.executive
            IsAdvisor(i) == \E k \in 1..Len(advisory) :
                               /\ advisory[k].reasoning = batch[i].reasoning
                               /\ advisory[k].provider = batch[i].provider
        IN  /\ \E i \in 1..n :
                   /\ IsExecutive(i)
                   /\ IsMaximal(batch[i], batch)
                   /\ SameNumber(result.confidence, Frac(batch[i].confidence, 1))
            /\ Len(advisory) = Min(3, n - 1)
            /\ \A k, l \in 1..Len(advisory) :
                   k # l => advisory[k].reasoning # advisory[l].reasoning
            /\ \A k \in 1..Len(advisory) :
                   \E i \in 1..n :
                       /\ ~IsExecutive(i)
                       /\ advisory[k].reasoning = batch[i].reasoning
                       /\ advisory[k].provider = batch[i].provider
                       /\ k > 1 =>
                              \E j \in 1..n :
                                  /\ advisory[k - 1].reasoning = batch[j].reasoning
                                  /\ batch[j].confidence >= batch[i].confidence
                       /\ \A j \in 1..n :
                              (~IsExecutive(j) /\ ~IsAdvisor(j)) =>
                                  batch[j].confidence <= batch[i].confidence

\* C21 witness: a batch of more than four responses, three advisors taken
\* and a response of lower confidence left out.
C21_Witness ==
    /\ Synthesised("hierarchical")
    /\ Len(currentResponses) > 4
    /\ Len(result.decision.advisory) = 3
    /\ \E i, j \in 1..Len(currentResponses) :
           currentResponses[i].confidence < currentResponses[j].confidence

\* C22: in expertise_weighted mode on a non-empty batch whose confidences
\* sum to more than 0, the confidence is the sum of the squared confidences
\* over the sum of the confidences, and the decision text is based on a
\* response of maximal confidence.
C22_ExpertiseWeighted ==
    (Synthesised("expertise_weighted") /\ SumConfidence(currentResponses) > 0) =>
        /\ result.confidence.den # 0
        /\ result.confidence.num * SumConfidence(currentResponses)
               = SumSquares(currentResponses) * result.confidence.den
        /\ \E i \in 1..Len(currentResponses) :
               /\ IsMaximal(currentResponses[i], currentResponses)
               /\ result.decision.base = currentResponses[i].response

\* C22 witness: three differing confidences, one of them 0.
C22_Witness ==
    /\ Synthesised("expertise_weighted")
    /\ Len(currentResponses) = 3
    /\ currentResponses[1].confidence = 0
    /\ currentResponses[2].confidence = 54
    /\ currentResponses[3].confidence = 30
    /\ result.confidence = Frac(54 * 54 + 30 * 30, 84)

\* C23: the batch of a round is formed only after every call of the round
\* has returned or failed, and the calls of the next round are started only
\* after it: the calls on their way are those of the one round not yet
\* joined.
C23_RoundsDoNotOverlap ==
    /\ \A i \in 1..Len(joined) :
           /\ ~SomePendingIn(joined[i].calls)
           /\ \A k \in 1..Len(joined[i].batch) :
                  joined[i].batch[k].response.fanout = i - 1
    /\ fanouts = IF Awaiting THEN Len(joined) + 1 ELSE Len(joined)
    /\ SomePendingIn(calls) => Awaiting
    /\ Awaiting => (pc = "awaiting_round0" <=> fanouts = 1)
    /\ pc = "awaiting_debate" => (round = fanouts - 1 /\ Len(debate) = round - 1)

\* C23 witness: the second debate round on its way, one call answered and
\* one pending, after two batches formed with a failed call in the first.
C23_Witness ==
    /\ pc = "awaiting_debate"
    /\ fanouts = 3
    /\ Len(joined) = 2
    /\ SomeFailedIn(joined[1].calls)
    /\ SomePendingIn(calls)
    /\ SomeFulfilledIn(calls)

\* C24 (state part): the calls of every round, joined or on its way, are
\* one per configured provider, a provider that failed before included.
C24_OneCallEach ==
    /\ \A i \in 1..Len(joined) : DOMAIN joined[i].calls = providers
    /\ Awaiting => DOMAIN calls = providers

\* C24 (step part): a call that has failed or answered stays so until the
\* round is joined, and a new round starts one pending call for every
\* configured provider.
C24_NoRetryWithinRound ==
    /\ fanouts' = fanouts =>
           \A p \in (DOMAIN calls) \cap (DOMAIN calls') :
               calls[p].state # "pending" => calls'[p] = calls[p]
    /\ fanouts' # fanouts =>
           /\ fanouts' = fanouts + 1
           /\ calls' = [p \in providers |-> Pending]

\* C24: in every round each configured provider is called exactly once: a
\* failed call is not retried within the round, and every configured
\* provider, one that failed in an earlier round included, is called again
\* in the next debate round.
C24_EachProviderOncePerRound ==
    []C24_OneCallEach /\ [][C24_NoRetryWithinRound]_vars

\* C24 witness: a provider that failed in Round-0 answers in debate round 1.
C24_Witness ==
    /\ Len(joined) >= 2
    /\ \E p \in providers :
           /\ joined[1].calls[p].state = "failed"
           /\ joined[2].calls[p].state = "fulfilled"
           /\ EntriesOf(p, joined[1].batch) = {}
           /\ Cardinality(EntriesOf(p, joined[2].batch)) = 1

\* The locals f of a call are what the call's own query and the answers to
\* its own provider calls make them: the batches are those of its fan-outs,
\* the round history is one entry per batch after the first, the current
\* batch is the last one recorded, and the Result is built from these.
OwnFrame(f) ==
    /\ f.pc = "idle" => f = IdleFrame
    /\ \A i \in 1..Len(f.joined) :
           f.joined[i].batch = SettledResponses(f.joined[i].calls, i - 1)
    /\ f.fanouts = IF f.pc \in {"awaiting_round0", "awaiting_debate"}
                   THEN Len(f.joined) + 1 ELSE Len(f.joined)
    /\ f.initialResponses # <<>> => f.initialResponses = f.joined[1].batch
    /\ f.threshold = Undefined =>
           /\ f.debate = <<>>
           /\ f.round = 0
           /\ f.currentResponses = <<>>
    /\ f.threshold # Undefined =>
           /\ f.query.requireConsensus
           /\ f.threshold = OrElse(f.query.votingThreshold, config.votingThreshold)
           /\ f.maxRounds = OrElse(f.query.maxDebateRounds, config.maxDebateRounds)
           /\ f.round \in {Len(f.debate), Len(f.debate) + 1}
           /\ f.round <= f.maxRounds
           /\ \A k \in 1..Len(f.debate) :
                  /\ f.debate[k].round = k
                  /\ f.debate[k].arguments = f.joined[k + 1].batch
           /\ f.currentResponses = f.joined[Len(f.debate) + 1].batch
           /\ f.agreement = calculateAgreement(f.currentResponses)
    /\ f.pc \in {"memory_store", "returned"} =>
           IF f.query.requireConsensus
           THEN /\ f.round = Len(f.debate)
                /\ f.result =
                       consensusResult(
                           synthesize(f.currentResponses, collaborationMode),
                           f.currentResponses, f.debate, f.round, f.agreement,
                           f.threshold, f.query, providers)
           ELSE f.result =
                    formatSimpleResult(selectBestResponse(f.joined[1].batch),
                                       f.joined[1].batch)

\* A step of one call leaves the locals of the other as they are, and a
\* turn of the event loop exchanges the two without changing either.
OtherCallUntouched ==
    /\ running' = running => suspended' = suspended
    /\ running' # running => (suspended' = Frame /\ Frame' = suspended)

\* C25: with two calls of query() on one agent, under every interleaving
\* of their steps, each call's round counter, round history, current batch
\* and Result are those its own query and provider answers make them, and
\* no step of one call changes the locals or the Result of the other.
C25_CallsAreIsolated ==
    [](OwnFrame(Frame) /\ OwnFrame(suspended)) /\ [][OtherCallUntouched]_vars

\* C25 witness: both calls returned a consensus Result, one after a debate
\* round and one without, the other call having taken steps in between.
C25_Witness ==
    /\ Returned
    /\ suspended.pc = "returned"
    /\ query.requireConsensus
    /\ suspended.query.requireConsensus
    /\ query # suspended.query
    /\ round = 1
    /\ suspended.round = 0
    /\ Len(events) = 4
    /\ events[1].name = "query:start"
    /\ events[2].name = "query:start"
    /\ events[3].query = suspended.query
    /\ result # suspended.result

----------------------------------------------------------------------------
(* extractReasoning of the three adapters, on answer texts of the caller's  *)
(* making.  A text is a sequence of words: one blank separates two words,   *)
(* "." follows its word directly, and "\n\n" is a paragraph break with no   *)
(* blank on either side.  "long" stands for sixty characters of words with  *)
(* no marker, connector or punctuation among them.  A string the adapters   *)
(* build is a sequence of words as well; it is empty iff it has no word.    *)

Break == "\n\n"

Words == {"reasoning:", "analysis:", "because", "long", ".", Break}

\* The longest text handed in, in words.
MaxWords == 5

Texts == UNION {[1..n -> Words] : n \in 0..MaxWords}

\* The characters of a word.
Width(w) ==
    CASE w = "long" -> 60
      [] w = "reasoning:" -> 10
      [] w = "analysis:" -> 9
      [] w = "because" -> 7
      [] w = "..." -> 3
      [] w = Break -> 2
      [] OTHER -> 1

\* A blank stands between word i and the next one.
Blank(text, i) ==
    i < Len(text) /\ text[i] # Break /\ text[i + 1] \notin {".", Break}

\* The characters of the first n words of text.
RECURSIVE LengthUpTo(_, _)
LengthUpTo(text, n) ==
    IF n = 0 THEN 0
    ELSE LengthUpTo(text, n - 1) + Width(text[n])
             + (IF n > 1 /\ Blank(text, n - 1) THEN 1 ELSE 0)

\* text.length
Length(text) == LengthUpTo(text, Len(text))

\* text.substring(0, n): the words that fit whole, then "~", the piece of
\* at least one character that is left of the word cut.
Substring(text, n) ==
    LET k == CHOOSE k \in 0..Len(text) :
                 /\ LengthUpTo(text, k) <= n
                 /\ k < Len(text) => LengthUpTo(text, k + 1) > n
    IN  IF k = Len(text) \/ LengthUpTo(text, k) = n
        THEN SubSeq(text, 1, k)
        ELSE Append(SubSeq(text, 1, k), "~")

\* text.trim(): paragraph breaks are white space.
RECURSIVE Trim(_)
Trim(text) ==
    IF text = <<>> THEN text
    ELSE IF Head(text) = Break THEN Trim(Tail(text))
    ELSE IF text[Len(text)] = Break THEN Trim(SubSeq(text, 1, Len(text) - 1))
    ELSE text

\* The first word at or after from that is in S; 0 if there is none.
NextIn(text, from, S) ==
    LET found == {j \in from..Len(text) : text[j] \in S}
    IN  IF found = {} THEN 0 ELSE Least(found)

\* text.split(separator)[0]
FirstPiece(text, separator) ==
    LET at == NextIn(text, 1, {separator})
    IN  IF at = 0 THEN text ELSE SubSeq(text, 1, at - 1)

\* text.split('\n\n')
RECURSIVE Paragraphs(_)
Paragraphs(text) ==
    LET at == NextIn(text, 1, {Break})
    IN  IF at = 0 THEN <<text>>
        ELSE <<SubSeq(text, 1, at - 1)>>
                 \o Paragraphs(SubSeq(text, at + 1, Len(text)))

\* parts.join('. ')
RECURSIVE Join(_)
Join(parts) ==
    IF parts = <<>> THEN <<>>
    ELSE IF Len(parts) = 1 THEN parts[1]
    ELSE parts[1] \o <<".">> \o Join(Tail(parts))

NoMatch == [at |-> 0, from |-> 0, to |-> 0, end |-> 0]

\* The match of /because\s+(.+?)(?:\.|$)/ that starts at word i, with \n as
\* a third way to end when newlineEnds: white space must follow the
\* connector, the group takes one character at least and no line break, and
\* it ends before the first "." after that, or at the end of the text.
\* at..end is the match, from..to the group.
connectorAt(text, i, newlineEnds) ==
    IF ~(text[i] = "because" /\ i < Len(text) /\ text[i + 1] # ".")
    THEN NoMatch
    ELSE LET j == NextIn(text, i + 1, Words \ {Break})
         IN  IF j = 0 THEN NoMatch
             ELSE LET stop == NextIn(text, j + 1, {".", Break})
                  IN  IF stop # 0 /\ text[stop] = Break /\ ~newlineEnds
                      THEN NoMatch
                      ELSE [at |-> i, from |-> j,
                            to |-> IF stop = 0 THEN Len(text) ELSE stop - 1,
                            end |-> IF stop = 0 THEN Len(text) ELSE stop]

\* The matches of the global pattern, left to right, none overlapping.
RECURSIVE connectorMatches(_, _, _)
connectorMatches(text, from, newlineEnds) ==
    LET starts == {i \in from..Len(text) :
                      connectorAt(text, i, newlineEnds).at # 0}
    IN  IF starts = {} THEN <<>>
        ELSE LET m == connectorAt(text, Least(starts), newlineEnds)
             IN  <<m>> \o connectorMatches(text, m.end + 1, newlineEnds)

\* The matches of /marker:?\s*(.+?)(?:\n\n|$)/gi: white space or none after
\* the marker, then the rest of the paragraph, which has one character at
\* least.  Each match is the text matched, marker included.
RECURSIVE sectionMatches(_, _, _)
sectionMatches(text, marker, from) ==
    LET starts == {i \in from..Len(text) :
                      /\ text[i] = marker
                      /\ NextIn(text, i + 1, Words \ {Break}) # 0}
    IN  IF starts = {} THEN <<>>
        ELSE LET i == Least(starts)
                 j == NextIn(text, i + 1, Words \ {Break})
                 b == NextIn(text, j, {Break})
                 e == IF b = 0 THEN Len(text) ELSE b - 1
             IN  <<SubSeq(text, i, e)>> \o sectionMatches(text, marker, e + 1)

\* OpenAIProvider.extractReasoning: the first match of the first pattern
\* that matches (of the connectors, the texts have "because"), else the
\* first sentence if longer than 10 characters, else a prefix.
extractReasoningOpenAI(text) ==
    LET matches == connectorMatches(text, 1, FALSE)
        firstSentence == FirstPiece(text, ".")
    IN  IF matches # <<>>
        THEN Returns(SubSeq(text, matches[1].at, matches[1].end))
        ELSE IF Length(firstSentence) > 10
        THEN Returns(Append(firstSentence, "."))
        ELSE Returns(Append(Substring(text, 100), "..."))

\* GoogleProvider.extractReasoning: the groups of all matches of the first
\* pattern that matches, joined; else the surroundings of a stated
\* confidence (the texts state none); else the first sentence, trimmed, if
\* longer than 10 characters; else a prefix.
extractReasoningGoogle(text) ==
    LET matches == connectorMatches(text, 1, FALSE)
        groups == [k \in 1..Len(matches) |->
                      SubSeq(text, matches[k].from, matches[k].to)]
        firstSentence == Trim(FirstPiece(text, "."))
    IN  IF Len(matches) > 0
        THEN Returns(Append(Join(groups), "."))
        ELSE IF firstSentence # <<>> /\ Length(firstSentence) > 10
        THEN Returns(Append(firstSentence, "."))
        ELSE Returns(Append(Substring(text, 150), "..."))

\* The section markers AnthropicProvider looks for, in its order, that the
\* texts have.
reasoningSections == <<"reasoning:", "analysis:">>

\* content.match(pattern) with a global pattern is the array of the texts
\* matched, so match[1] is the second match, and undefined when there is
\* one match only: match[1].trim() then throws.
sectionOf(matches) ==
    IF Len(matches) < 2 THEN Throws("TypeError")
    ELSE Returns(Trim(matches[2]))

\* AnthropicProvider.extractReasoning: the first section pattern that
\* matches decides; else the groups of the logical connectors, trimmed and
\* joined; else the first paragraph of more than 50 characters, cut at 200;
\* else a prefix.
RECURSIVE firstSection(_, _)
firstSection(text, k) ==
    IF k > Len(reasoningSections) THEN <<>>
    ELSE LET matches == sectionMatches(text, reasoningSections[k], 1)
         IN  IF matches # <<>> THEN matches ELSE firstSection(text, k + 1)

extractReasoningAnthropic(text) ==
    LET section == firstSection(text, 1)
        matches == connectorMatches(text, 1, TRUE)
        reasoningParts == [k \in 1..Len(matches) |->
                              Trim(SubSeq(text, matches[k].from, matches[k].to))]
        paragraphs == Paragraphs(text)
        substantial == {k \in 1..Len(paragraphs) :
                           Length(Trim(paragraphs[k])) > 50}
    IN  IF section # <<>> THEN sectionOf(section)
        ELSE IF Len(reasoningParts) > 0
        THEN Returns(Append(Join(reasoningParts), "."))
        ELSE IF substantial # {}
        THEN LET p == paragraphs[Least(substantial)]
             IN  Returns(Substring(Trim(p), 200)
                             \o (IF Length(p) > 200 THEN <<"...">> ELSE <<>>))
        ELSE Returns(Append(Substring(text, 150), "..."))

\* this.extractReasoning(content) of adapter p
extractReasoning(p, text) ==
    CASE p = "openai" -> extractReasoningOpenAI(text)
      [] p = "google" -> extractReasoningGoogle(text)
      [] p = "anthropic" -> extractReasoningAnthropic(text)

ReasoningInit ==
    /\ providers = ProviderNames
    /\ collaborationMode = "democratic_consensus"
    /\ config = ConstructConfig(Undefined, Undefined, FALSE)
    /\ query = NoQuery
    /\ pc = "idle"
    /\ calls = [p \in providers |-> Failed]
    /\ fanouts = 0
    /\ initialResponses = <<>>
    /\ currentResponses = <<>>
    /\ debate = <<>>
    /\ round = 0
    /\ maxRounds = Undefined
    /\ agreement = Undefined
    /\ threshold = Undefined
    /\ scored = <<>>
    /\ joined = <<>>
    /\ result = NoResult
    /\ error = NoError
    /\ events = <<>>
    /\ memoryLog = <<>>
    /\ suspended = NoCall
    /\ running = 1
    /\ content \in Texts
    /\ extracted = NoExtraction

\* reasoning: this.extractReasoning(content), in the adapter of provider p
ExtractReasoning(p) ==
    /\ p \notin DOMAIN extracted
    /\ extracted' = [q \in DOMAIN extracted \cup {p} |->
                        IF q = p THEN extractReasoning(p, content)
                        ELSE extracted[q]]
    /\ UNCHANGED <<otherCall, content, providers, collaborationMode, config,
                   query, pc, calls, fanouts, initialResponses,
                   buildConsensusLocals, scored, joined, result, error,
                   events, memoryLog>>

ReasoningNext == \E p \in providers : ExtractReasoning(p)

ReasoningSpec == ReasoningInit /\ [][ReasoningNext]_vars

\* C26: for every answer text, the empty text and a text with a single
\* reasoning marker included, the reasoning extraction of each adapter
\* returns a non-empty string and does not raise.
C26_ReasoningIsTotal ==
    \A p \in DOMAIN extracted :
        /\ ~extracted[p].threw
        /\ extracted[p].value # <<>>

\* The adapters that take their reasoning from the first match or from all
\* the groups return a non-empty string on every text.
OpenAIAndGoogleAreTotal ==
    \A p \in DOMAIN extracted \ {"anthropic"} :
        /\ ~extracted[p].threw
        /\ extracted[p].value # <<>>

\* The debate rounds conductDebateRound has returned from: the fan-outs
\* after the first that gave a batch, under a mode synthesize knows.
DebateRoundsReturned ==
    IF Unsupported(collaborationMode) THEN 0
    ELSE Cardinality({i \in 2..Len(joined) : joined[i].batch # <<>>})

\* The round history has an entry per debate round returned, numbered from
\* 1 in order, and the Result counts them.
HistoryCounted ==
    /\ Len(debate) = DebateRoundsReturned
    /\ \A i \in 1..Len(debate) :
           /\ debate[i].round = i
           /\ debate[i].arguments = joined[i + 1].batch
    /\ (ResultBuilt /\ query.requireConsensus) =>
           /\ result.metadata.rounds = Len(debate)
           /\ query.showDebate => result.debate = Some(debate)

\* A step leaves the history as it is or appends one entry to it.
HistoryAppended ==
    \/ debate' = debate
    \/ /\ Len(debate') = Len(debate) + 1
       /\ SubSeq(debate', 1, Len(debate)) = debate

\* C27: the round history only grows by appending: after k debate rounds
\* it has exactly k entries, the i-th with round index i, no earlier entry
\* is changed or removed, and metadata.rounds of the Result (and the length
\* of the trace, when included) is the number of entries.
C27_HistoryOnlyGrows == []HistoryCounted /\ [][HistoryAppended]_vars

\* C27 witness: a Result after three debate rounds, trace included.
C27_Witness ==
    /\ Returned
    /\ query.requireConsensus
    /\ query.showDebate
    /\ Len(debate) = 3
    /\ debate[1].arguments # debate[2].arguments
    /\ result.metadata.rounds = 3
    /\ Len(result.debate.value) = 3

\* The fan-outs of a consensus query, under a threshold in (0,1], that gave
\* a batch of exactly one response.
SingleResponseRounds ==
    {i \in 1..Len(joined) :
        /\ query.requireConsensus
        /\ ThresholdInEffect \in 1..One
        /\ Len(joined[i].batch) = 1}

\* C28: on the consensus path with a threshold in (0,1], a batch of exactly
\* one response has agreement 1, so the query concludes right after that
\* round, with no further fan-out, even when the response's confidence is
\* below the threshold; the response is then reported as dissenting
\* although the agreement reported is 1.
C28_SingleResponseConcludes ==
    \A i \in SingleResponseRounds :
        LET only == joined[i].batch[1]
        IN  /\ i = Len(joined)
            /\ fanouts = i
            /\ pc \in {"memory_store", "returned", "rejected"}
            /\ Rejected => Unsupported(collaborationMode)
            /\ ResultBuilt =>
                   /\ agreement = One
                   /\ result.agreement = One
                   /\ result.metadata.rounds = i - 1
                   /\ only.confidence < threshold =>
                          result.dissenting = <<only>>
                   /\ only.confidence >= threshold =>
                          result.dissenting = <<>>

\* C28 witness: a debate round with budget left gave one response, of
\* confidence 0.5 under the threshold 0.7; the query returned with
\* agreement 1 and that response dissenting.
C28_Witness ==
    /\ Returned
    /\ SingleResponseRounds = {2}
    /\ round = 1
    /\ round < maxRounds
    /\ threshold = 42
    /\ currentResponses[1].confidence = 30
    /\ result.agreement = One
    /\ result.dissenting = currentResponses

----------------------------------------------------------------------------
(* buildConsensus in the arithmetic of Number: binary floating point,       *)
(* rounded to nearest, ties to even.  The significand has Precision bits    *)
(* where a double has 53: 0.7 is 0.1 0110 0110 ... in binary, of period 4,  *)
(* so 0.7 and its multiples round at 5 bits as they do at 53.  Numbers are  *)
(* counted in units of 2^-(Precision + 3), in which every float from 1/16   *)
(* up is whole.                                                             *)

Precision == 5

\* 1.0
FloatOne == 2 ^ (Precision + 3)

\* The float nearest to num / den (num in units), the one of even
\* significand of two equally near: e is the exponent that leaves
\* Precision bits before the point, q those bits, rem what is cut off.
Nearest(num, den) ==
    LET e == IF num < 2 ^ (Precision - 1) * den THEN 0
             ELSE CHOOSE e \in 0..(Precision + 1) :
                      /\ 2 ^ (Precision - 1 + e) * den <= num
                      /\ num < 2 ^ (Precision + e) * den
        ulp == 2 ^ e * den
        q == num \div ulp
        rem == num % ulp
    IN  IF 2 * rem > ulp \/ (2 * rem = ulp /\ q % 2 = 1)
        THEN (q + 1) * 2 ^ e
        ELSE q * 2 ^ e

\* responses.reduce((sum, r) => sum + r.confidence, 0), over the first k
RECURSIVE ReduceSum(_, _)
ReduceSum(responses, k) ==
    IF k = 0 THEN 0
    ELSE Nearest(ReduceSum(responses, k - 1) + responses[k].confidence, 1)

\* calculateAgreement, each + and the / rounded.
calculateAgreementRounded(responses) ==
    IF Len(responses) <= 1 THEN FloatOne
    ELSE Nearest(ReduceSum(responses, Len(responses)), Len(responses))

\* The confidences of the answers: 0.5, 0.7, 0.9 as floats.
FloatConfidences ==
    {Nearest(5 * FloatOne, 10), Nearest(7 * FloatOne, 10),
     Nearest(9 * FloatOne, 10)}

\* The batches of fan-out n: one to three providers answered.
FloatBatches(n) ==
    UNION {{[i \in 1..k |-> Response(ProviderOrder[i], c[i], n)] :
               c \in [1..k -> FloatConfidences]} : k \in 1..Len(ProviderOrder)}

\* An agent with the default threshold 0.7 and one or two debate rounds,
\* its Round-0 fan-out under way.
FloatInit ==
    /\ providers = ProviderNames
    /\ collaborationMode = "democratic_consensus"
    /\ config \in {[votingThreshold |-> Nearest(7 * FloatOne, 10), maxDebateRounds |-> m,
                    enableMemory |-> FALSE] : m \in 1..2}
    /\ query = [requireConsensus |-> TRUE, showDebate |-> FALSE,
                votingThreshold |-> Undefined, maxDebateRounds |-> Undefined]
    /\ pc = "awaiting_round0"
    /\ calls = [p \in providers |-> Pending]
    /\ fanouts = 1
    /\ initialResponses = <<>>
    /\ currentResponses = <<>>
    /\ debate = <<>>
    /\ round = 0
    /\ maxRounds = Undefined
    /\ agreement = Undefined
    /\ threshold = Undefined
    /\ scored = <<>>
    /\ joined = <<>>
    /\ result = NoResult
    /\ error = NoError
    /\ events = <<>>
    /\ memoryLog = <<>>
    /\ suspended = NoCall
    /\ running = 1
    /\ content = <<>>
    /\ extracted = NoExtraction

\* The end of buildConsensus: the agreement and the dissenting responses of
\* the object returned, the decision left aside.
FloatConclude(cur, rnd, agr, thr, maxR) ==
    /\ currentResponses' = cur
    /\ agreement' = agr
    /\ threshold' = thr
    /\ maxRounds' = maxR
    /\ round' = rnd
    /\ fanouts' = fanouts
    /\ pc' = "returned"
    /\ result' = [agreement |-> agr,
                  dissenting |-> Dissenting(cur, thr),
                  metadata |-> [rounds |-> rnd]]

\* The while test: another debate round, or the end.
FloatLoopOrConclude(cur, rnd, agr, thr, maxR) ==
    IF LoopContinues(agr, thr, rnd, maxR)
    THEN /\ currentResponses' = cur
         /\ agreement' = agr
         /\ threshold' = thr
         /\ maxRounds' = maxR
         /\ round' = NextRound(rnd)
         /\ fanouts' = fanouts + 1
         /\ pc' = "awaiting_debate"
         /\ UNCHANGED result
    ELSE FloatConclude(cur, rnd, agr, thr, maxR)

\* The Round-0 fan-out gave batch: buildConsensus up to its next await.
FloatJoinRound0(batch) ==
    /\ pc = "awaiting_round0"
    /\ initialResponses' = batch
    /\ FloatLoopOrConclude(batch, 0, calculateAgreementRounded(batch),
                           OrElse(query.votingThreshold, config.votingThreshold),
                           OrElse(query.maxDebateRounds, config.maxDebateRounds))
    /\ UNCHANGED <<adapterLocals, otherCall, providers, collaborationMode,
                   config, query, calls, debate, scored, joined, error,
                   events, memoryLog>>

\* The fan-out of a debate round gave batch: the round is pushed, and the
\* loop breaks, goes on or ends.
FloatJoinDebate(batch) ==
    /\ pc = "awaiting_debate"
    /\ LET agr == calculateAgreementRounded(batch)
       IN  /\ debate' = push(debate, [round |-> round,
                                      participants |-> Keys(providers),
                                      arguments |-> batch,
                                      agreement |-> agr])
           /\ IF BreakNow(agr, threshold)
              THEN FloatConclude(batch, round, agr, threshold, maxRounds)
              ELSE FloatLoopOrConclude(batch, round, agr, threshold, maxRounds)
    /\ UNCHANGED <<adapterLocals, otherCall, providers, collaborationMode,
                   config, query, calls, initialResponses, scored, joined,
                   error, events, memoryLog>>

FloatNext ==
    \/ \E batch \in FloatBatches(0) : FloatJoinRound0(batch)
    \/ \E batch \in FloatBatches(round) : FloatJoinDebate(batch)

FloatSpec == FloatInit /\ [][FloatNext]_vars

\* The query concluded because the agreement reached the threshold.
ConcludedAgreed == Returned /\ query.requireConsensus /\ agreement >= threshold

\* The query concluded with the round budget spent and no agreement.
ConcludedExhausted == Returned /\ query.requireConsensus /\ agreement < threshold

\* C29: when a consensus query concludes with agreement >= threshold on a
\* final batch of two or more, some final response has a confidence >=
\* threshold and the dissenting list is a strict part of the batch; when it
\* concludes with the budget spent and agreement < threshold, some final
\* response is dissenting.
C29_DissentFollowsAgreement ==
    /\ (ConcludedAgreed /\ Len(currentResponses) >= 2) =>
           /\ \E i \in 1..Len(currentResponses) :
                  currentResponses[i].confidence >= threshold
           /\ Len(result.dissenting) < Len(currentResponses)
    /\ ConcludedExhausted => Len(result.dissenting) >= 1

\* In the arithmetic of Number too, an agreement at the threshold or above
\* comes with a response at the threshold or above.
AgreedHasAssenting ==
    (ConcludedAgreed /\ Len(currentResponses) >= 2) =>
        Len(result.dissenting) < Len(currentResponses)

----------------------------------------------------------------------------
(* Termination of query().  Every provider call settles and every memory    *)
(* operation returns (the assumption of the statement), and the event loop  *)
(* runs a continuation whose promise has settled: the steps after the start *)
(* of a query are taken when they stay possible.  Nothing obliges a caller  *)
(* to start a query.                                                        *)

\* An agent of the default mode, threshold and round budget, with memory
\* and one or two providers.
LiveInit ==
    /\ Init
    /\ providers \subseteq {"openai", "google"}
    /\ collaborationMode = "democratic_consensus"
    /\ config = ConstructConfig(Undefined, Undefined, TRUE)

\* The steps of a query after its start.
Progress ==
    \/ MemorySearchReturns
    \/ \E p \in providers, c \in Confidences : ProviderResponds(p, c)
    \/ \E p \in providers : ProviderFails(p)
    \/ JoinRound0
    \/ JoinDebate
    \/ MemoryStoreReturns

LiveSpec == LiveInit /\ [][Next]_vars /\ WF_vars(Progress)

Started == pc # "idle"

\* The debate loop starts no round beyond its budget.
RoundsWithinBudget ==
    threshold # Undefined =>
        /\ round <= maxRounds
        /\ DebateRoundsStarted = round

\* C30: with every provider call settling and every memory operation
\* returning, a query that was started eventually returns a Result or is
\* rejected to the caller; the debate loop cannot run on, since each
\* iteration increases the round counter and the loop requires it to be
\* below the maximum.
C30_QueryTerminates ==
    []RoundsWithinBudget /\ (Started ~> (Returned \/ Rejected))

\* C30 witness: a query returned with its budget of three debate rounds
\* spent and the agreement still below the threshold.
C30_Witness ==
    /\ Returned
    /\ query.requireConsensus
    /\ maxRounds = 3
    /\ round = maxRounds
    /\ agreement < threshold
    /\ Len(debate) = 3

====
